---- MODULE Spec2Model ----
(***************************************************************************)
(* Market analysis and anomaly detection engine of realestate_monitoring:  *)
(* the listings / group_stats / listing_analysis tables, the statistical   *)
(* analysis (analysis/analyze.py), the ML analysis (analysis/analyze_ml.py)*)
(* and the ingestion that feeds them.                                      *)
(*                                                                         *)
(* Numbers.  Every numeric column is an exact rational <<num, den>> with   *)
(* den > 0, in lowest terms; SQL NULL / pandas NaN is the empty tuple.     *)
(* A standard deviation is carried by its square (the sample variance):    *)
(* std values are non-negative, so two of them are equal iff their squares *)
(* are, and x > mu + k*sigma iff x - mu > 0 and (x-mu)^2 > k^2 * sigma^2.  *)
(***************************************************************************)
EXTENDS Integers, Sequences, FiniteSets, TLC

VARIABLES
    listings,          \* table listings: listing_id -> row (PRIMARY KEY listing_id)
    group_stats,       \* table group_stats: set of rows, PRIMARY KEY id AUTOINCREMENT
    gs_seq,            \* last id handed out by group_stats' AUTOINCREMENT
    listing_analysis,  \* table listing_analysis: set of rows
    today,             \* datetime.utcnow().date(), as a day number
    now,               \* datetime.utcnow(), as a tick that grows with every batch
    runs,              \* number of analysis runs started so far
    exec,              \* the scheduler's execution of run_pipeline / run_spider
    pipeline,          \* the counters of the PostgresPipeline object
    database_url,      \* what DATABASE_URL holds when config.py is imported
    dialect,           \* DB_DIALECT = engine.dialect.name, fixed when the module loads
    pc,                \* per run slot: where the run is
    run,               \* per run slot: the locals of analyze_and_store
    analysed,          \* history: the listing ids some committed batch has held
    feed,              \* which of Feeds the crawl yields
    fed,               \* how many of its items have been stored
    probe              \* classifier inputs/outputs of the pure-function specification

vars == <<listings, group_stats, gs_seq, listing_analysis, today, now, runs, exec, pipeline, database_url, dialect, pc, run, analysed, feed, fed, probe>>

-----------------------------------------------------------------------------
(* Bounds of the model *)

NumSlots == 2
MaxRuns == 2
MaxDay == 101

(* Program constants *)

MIN_TRAIN_SIZE == 500
DEVIATION_THRESHOLD == 15
LOOKBACK_DAYS == 90
STAT_LOOKBACK_DAYS == 7
MIN_SQ_FT == 500
FIRST_DAY == 100

(* THRESHOLD_MULTIPLIER = 1.5, as the exact rational 3/2 *)
THRESHOLD_MULTIPLIER == <<3, 2>>

-----------------------------------------------------------------------------
(* Exact rationals *)

NULL == <<>>

IsNull(v) == v = NULL

Abs(i) == IF i < 0 THEN -i ELSE i

RECURSIVE Gcd(_, _)
Gcd(a, b) == IF b = 0 THEN a ELSE Gcd(b, a % b)

Rat(n, d) ==
    LET s == IF d < 0 THEN -1 ELSE 1
        g == Gcd(Abs(n), Abs(d))
    IN  <<(s * n) \div g, (s * d) \div g>>

R(i) == <<i, 1>>

Lcm(a, b) == (a \div Gcd(a, b)) * b

RAdd(a, b) ==
    LET l == Lcm(a[2], b[2])
    IN  Rat(a[1] * (l \div a[2]) + b[1] * (l \div b[2]), l)
RNeg(a) == <<-a[1], a[2]>>
RSub(a, b) == RAdd(a, RNeg(b))
RMul(a, b) ==
    LET g1 == Gcd(Abs(a[1]), b[2])
        g2 == Gcd(Abs(b[1]), a[2])
    IN  Rat((a[1] \div g1) * (b[1] \div g2), (a[2] \div g2) * (b[2] \div g1))
RDiv(a, b) == RMul(a, Rat(b[2], b[1]))
RLess(a, b) ==
    LET l == Lcm(a[2], b[2])
    IN  a[1] * (l \div a[2]) < b[1] * (l \div b[2])
RGreater(a, b) == RLess(b, a)
RAbs(a) == <<Abs(a[1]), a[2]>>
RZero == R(0)

-----------------------------------------------------------------------------
(* Listings and the observations the ingestion can store *)

NULLTEXT == "<NULL>"

Slots == 1..NumSlots

Zips == {"Z1", "Z2"}

(* A row of listings.  copies is the number of listings of the table that   *)
(* carry exactly these column values under identifiers of their own: 1 for  *)
(* a single listing, more for a block of identical listings stored by one   *)
(* batch.  Every listing of a block is read, scored and upserted alike, so  *)
(* the block's row and its row of listing_analysis stand for each of them.  *)
Row(zip, ptype, price, sqft, beds, baths, year, dq, day, copies) ==
    [zip_code |-> zip, property_type |-> ptype, price |-> price, sq_ft |-> sqft,
     beds |-> beds, baths |-> baths, year_built |-> year, dq_status |-> dq,
     scrape_day |-> day, copies |-> copies]

StaleDay == FIRST_DAY - LOOKBACK_DAYS - 1

(* The block holds one listing fewer than the model needs for training, so  *)
(* that the population is MIN_TRAIN_SIZE - 1 without, and MIN_TRAIN_SIZE    *)
(* with, one further eligible listing.                                      *)
BlockCopies == MIN_TRAIN_SIZE - 1

(* A block small enough to leave the model untrained and large enough for a *)
(* single listing next to it to lie outside the band of its segment         *)
SmallBlockCopies == 5

(* An observation and the loader that brings it: "crawl" for an item of the *)
(* spider handed to process_item, which carries no dq_status yet, "seed"    *)
(* for a record seed upserts                                                *)
Obs(id, via, address, row) ==
    [listing_id |-> id, via |-> via, address |-> address, row |-> row]

(* What a crawl yields, in order.  The first feed stores a block of listings  *)
(* large enough to train on, the second a small block and single listings.   *)
Feeds ==
    << << Obs("L3", "crawl", "addr", Row("Z1", "House", R(2000), R(0), R(3), R(2), R(2000),
                        NULLTEXT, FIRST_DAY, 1)),
          Obs("B", "seed", "addr", Row("Z1", "House", R(2000), R(1000), R(3), R(2), R(2000),
                        "PASS", FIRST_DAY, BlockCopies)),
          Obs("L1", "seed", "addr", Row("Z1", "House", R(3000), R(1000), R(3), R(2), R(2000),
                        "PASS", FIRST_DAY, 1)),
          Obs("L2", "seed", "addr", Row("Z1", "Condo", R(3000), R(1000), R(2), R(1), NULL,
                        "PASS", FIRST_DAY, 1)),
          Obs("L2", "crawl", "", Row("Z1", "House", R(1000), R(1000), R(3), R(2), R(2000),
                        NULLTEXT, FIRST_DAY, 1)),
          Obs("L1", "crawl", "addr", Row("Z1", "House", R(2000), R(1000), R(3), R(2), R(2000),
                        NULLTEXT, FIRST_DAY, 1)),
          Obs("L3", "seed", "addr", Row("Z2", "House", R(2000), R(1000), R(3), R(2), R(2000),
                        "PASS", FIRST_DAY, 1)) >>,
       << Obs("S", "seed", "addr", Row("Z1", "House", R(2000), R(1000), R(3), R(2), R(2000),
                        "PASS", FIRST_DAY, SmallBlockCopies)),
          Obs("L1", "seed", "addr", Row("Z1", "House", R(3000), R(1000), R(3), R(2), R(2000),
                        "PASS", FIRST_DAY, 1)),
          Obs("L2", "seed", "addr", Row("Z1", "House", R(3000), R(1000), R(3), R(2), R(2000),
                        "PASS", StaleDay, 1)),
          Obs("L3", "seed", "addr", Row("Z1", "House", R(2000), R(1000), NULL, R(2), R(2000),
                        "PASS", FIRST_DAY, 1)),
          Obs("L3", "seed", "addr", Row("Z2", "House", R(2000), R(1000), R(3), NULL, R(2000),
                        "PASS", FIRST_DAY, 1)),
          Obs("L2", "crawl", "addr", Row("Z1", "Condo", NULL, R(1000), R(2), R(1), R(2000),
                        NULLTEXT, FIRST_DAY, 1)),
          Obs("L1", "seed", "addr", Row("Z1", "Condo", R(3000), R(1000), R(2), R(1), R(2000),
                        "PASS", FIRST_DAY, 1)) >> >>

Ids == {"L1", "L2", "L3", "B", "S"}

(* INSERT ... ON CONFLICT (listing_id) DO NOTHING: the row stored first stays *)
upsert_listing_ignore(table, id, row) ==
    [i \in (DOMAIN table) \cup {id} |-> IF i \in DOMAIN table THEN table[i] ELSE row]

(* INSERT ... ON CONFLICT (listing_id) DO UPDATE / INSERT OR REPLACE on the  *)
(* listings table, whose primary key is listing_id                          *)
upsert_listing(table, id, row) ==
    [i \in (DOMAIN table) \cup {id} |-> IF i = id THEN row ELSE table[i]]

-----------------------------------------------------------------------------
(* Statistics of a set of prepared rows (each with ppsq and copies) *)

RECURSIVE SumCopies(_)
SumCopies(S) ==
    IF S = {} THEN 0
    ELSE LET r == CHOOSE x \in S : TRUE IN r.copies + SumCopies(S \ {r})

RECURSIVE SumPpsq(_)
SumPpsq(S) ==
    IF S = {} THEN RZero
    ELSE LET r == CHOOSE x \in S : TRUE
         IN  RAdd(RMul(R(r.copies), r.ppsq), SumPpsq(S \ {r}))

RECURSIVE SumSquares(_, _)
SumSquares(S, mean) ==
    IF S = {} THEN RZero
    ELSE LET r == CHOOSE x \in S : TRUE
             d == RSub(r.ppsq, mean)
         IN  RAdd(RMul(R(r.copies), RMul(d, d)), SumSquares(S \ {r}, mean))

(* Series.count(): the non-null values *)
AggCount(S) == SumCopies({r \in S : ~IsNull(r.ppsq)})

(* Series.mean(): NaN when there is no value *)
AggMean(S) ==
    LET V == {r \in S : ~IsNull(r.ppsq)}
        n == SumCopies(V)
    IN  IF n = 0 THEN NULL ELSE RDiv(SumPpsq(V), R(n))

(* A std that is 0, not NaN, below two values (ddof = 0) *)
AggStd_zero(S) ==
    LET V == {r \in S : ~IsNull(r.ppsq)}
        n == SumCopies(V)
        mean == RDiv(SumPpsq(V), R(n))
    IN  IF n = 0 THEN NULL
        ELSE IF n < 2 THEN RZero
        ELSE RDiv(SumSquares(V, mean), R(n - 1))

(* Series.std(), ddof = 1, carried as its square: NaN below two values *)
AggStd(S) ==
    LET V == {r \in S : ~IsNull(r.ppsq)}
        n == SumCopies(V)
        mean == RDiv(SumPpsq(V), R(n))
    IN  IF n < 2 THEN NULL ELSE RDiv(SumSquares(V, mean), R(n - 1))

-----------------------------------------------------------------------------
(* analysis/analyze.py: the statistical analysis *)

(* SELECT all columns FROM listings WHERE zip_code = :zip *)
(* analyze.py load_recent_listings(zip_code, days=7): defined, and called by *)
(* nothing                                                                  *)
stat_load_recent_listings(z, day) ==
    {i \in DOMAIN listings :
        /\ listings[i].zip_code = z
        /\ listings[i].scrape_day >= day - STAT_LOOKBACK_DAYS}

(* pd.read_sql("SELECT * FROM listings WHERE zip_code = :zip") *)
select_zip(z) == {i \in DOMAIN listings : listings[i].zip_code = z}

(* df = df[df['sq_ft'] > 0]; df['ppsq'] = df['price'] / df['sq_ft'] *)
stat_frame(z) ==
    {[listing_id |-> i,
      zip_code |-> listings[i].zip_code,
      property_type |-> listings[i].property_type,
      ppsq |-> IF IsNull(listings[i].price) THEN NULL
               ELSE RDiv(listings[i].price, listings[i].sq_ft),
      copies |-> listings[i].copies]
     : i \in {j \in select_zip(z) :
                 /\ ~IsNull(listings[j].sq_ft)
                 /\ RGreater(listings[j].sq_ft, RZero)}}

(* df.groupby(['zip_code', 'property_type'])['ppsq'].agg(['mean', 'std', 'count']): *)
(* groupby drops the rows whose key is null                                        *)
stat_groups(df) ==
    {<<r.zip_code, r.property_type>> : r \in {x \in df : x.property_type # NULLTEXT}}

group_members(df, g) == {r \in df : <<r.zip_code, r.property_type>> = g}

stat_stats(df) ==
    [g \in stat_groups(df) |->
        LET members == group_members(df, g)
        IN  [mu |-> AggMean(members), sigma |-> AggStd(members), n |-> AggCount(members)]]

make_gs_records(df, stat_date) ==
    LET stats == stat_stats(df)
    IN  {[zip_code |-> g[1], property_type |-> g[2], stat_date |-> stat_date,
          mean_ppsq |-> stats[g].mu,
          std_ppsq |-> stats[g].sigma,
          count_listings |-> stats[g].n] : g \in DOMAIN stats}

(* r['ppsq'] > mu + k*sigma, on the square of sigma *)
above_band(x, mu, k, sigma) ==
    /\ RGreater(x, mu)
    /\ RGreater(RMul(RSub(x, mu), RSub(x, mu)), RMul(RMul(k, k), sigma))

(* r['ppsq'] < mu - k*sigma, on the square of sigma *)
below_band(x, mu, k, sigma) ==
    /\ RLess(x, mu)
    /\ RGreater(RMul(RSub(mu, x), RSub(mu, x)), RMul(RMul(k, k), sigma))

(* flag_row with >= and <= for its comparisons *)
flag_row_inclusive(ppsq, mu, sigma) ==
    LET reach == RMul(RMul(THRESHOLD_MULTIPLIER, THRESHOLD_MULTIPLIER), sigma)
        gap == RMul(RSub(ppsq, mu), RSub(ppsq, mu))
    IN  IF IsNull(ppsq) \/ IsNull(mu) \/ IsNull(sigma) THEN <<FALSE, NULLTEXT>>
        ELSE IF ~RLess(ppsq, mu) /\ ~RLess(gap, reach) THEN <<TRUE, "over-priced">>
        ELSE IF ~RGreater(ppsq, mu) /\ ~RLess(gap, reach) THEN <<TRUE, "under-priced">>
        ELSE <<FALSE, NULLTEXT>>

flag_row(ppsq, mu, sigma) ==
    IF IsNull(ppsq) \/ IsNull(mu) \/ IsNull(sigma) THEN <<FALSE, NULLTEXT>>
    ELSE IF above_band(ppsq, mu, THRESHOLD_MULTIPLIER, sigma) THEN <<TRUE, "over-priced">>
    ELSE IF below_band(ppsq, mu, THRESHOLD_MULTIPLIER, sigma) THEN <<TRUE, "under-priced">>
    ELSE <<FALSE, NULLTEXT>>

(* df.merge(stats, how='left'), flag_row per row, and the records list *)
stat_records(df) ==
    LET stats == stat_stats(df)
    IN  {LET g == <<r.zip_code, r.property_type>>
             known == g \in DOMAIN stats
             mu == IF known THEN stats[g].mu ELSE NULL
             sigma == IF known THEN stats[g].sigma ELSE NULL
             flag == flag_row(r.ppsq, mu, sigma)
         IN  [listing_id |-> r.listing_id, price_per_sqft |-> r.ppsq,
              is_anomaly |-> flag[1], anomaly_type |-> flag[2],
              mean_ppsq |-> mu, std_ppsq |-> sigma] : r \in df}

-----------------------------------------------------------------------------
(* The two result tables and their upserts *)

gs_key(r) == <<r.zip_code, r.property_type, r.stat_date>>

(* One statement of the group_stats batch.  SQLite: INSERT OR REPLACE into a  *)
(* table whose only key is id INTEGER PRIMARY KEY AUTOINCREMENT; the statement*)
(* gives no id, so no row conflicts and the record is added under a new id.  *)
(* PostgreSQL: ON CONFLICT (zip_code, property_type, stat_date) DO UPDATE.   *)
gs_execute(d, tbl, rec) ==
    LET hit == {r \in tbl.rows : gs_key(r) = gs_key(rec)}
        fresh == [id |-> tbl.seq + 1,
                  zip_code |-> rec.zip_code, property_type |-> rec.property_type,
                  stat_date |-> rec.stat_date, mean_ppsq |-> rec.mean_ppsq,
                  std_ppsq |-> rec.std_ppsq, count_listings |-> rec.count_listings]
    IN  IF d = "sqlite" \/ hit = {}
        THEN [rows |-> tbl.rows \cup {fresh}, seq |-> tbl.seq + 1]
        ELSE [rows |-> (tbl.rows \ hit) \cup
                       {[r EXCEPT !.mean_ppsq = rec.mean_ppsq,
                                  !.std_ppsq = rec.std_ppsq,
                                  !.count_listings = rec.count_listings] : r \in hit},
              seq |-> tbl.seq]

(* A connection in autocommit: the statements run before the exception stay *)
rollback_none(before, partial) == partial

(* with engine.begin() as conn, left by an exception: the transaction is    *)
(* rolled back                                                              *)
rollback(before, partial) == before

(* with engine.begin() as conn: the whole batch of gs_records *)
RECURSIVE gs_batch(_, _, _)
gs_batch(d, tbl, recs) ==
    IF recs = {} THEN tbl
    ELSE LET rec == CHOOSE x \in recs : TRUE
         IN  gs_batch(d, gs_execute(d, tbl, rec), recs \ {rec})

(* The columns an analysis record can carry beyond those analyze.py writes *)
ml_columns(rec, is_ml) ==
    IF is_ml
    THEN [predicted_price |-> rec.predicted_price,
          deviation_percentage |-> rec.deviation_percentage,
          dq_status |-> rec.dq_status]
    ELSE [predicted_price |-> NULL, deviation_percentage |-> NULL, dq_status |-> NULLTEXT]

(* One statement of the listing_analysis batch (PRIMARY KEY listing_id).     *)
(* SQLite: INSERT OR REPLACE deletes the row of that listing_id and inserts  *)
(* the new one, the columns the statement does not name taking their default *)
(* NULL.  PostgreSQL: ON CONFLICT (listing_id) DO UPDATE SET the named       *)
(* columns, the others keeping their stored value.                           *)
(* An upsert whose SET list leaves anomaly_type out: a row in conflict keeps *)
(* its stored category                                                       *)
la_row_keep_type(d, rows, rec, is_ml, at) ==
    LET hit == {r \in rows : r.listing_id = rec.listing_id}
    IN  [listing_id |-> rec.listing_id, price_per_sqft |-> rec.price_per_sqft,
         is_anomaly |-> rec.is_anomaly,
         anomaly_type |-> IF hit = {} THEN rec.anomaly_type
                          ELSE (CHOOSE r \in hit : TRUE).anomaly_type,
         mean_ppsq |-> rec.mean_ppsq, std_ppsq |-> rec.std_ppsq,
         predicted_price |-> ml_columns(rec, is_ml).predicted_price,
         deviation_percentage |-> ml_columns(rec, is_ml).deviation_percentage,
         dq_status |-> ml_columns(rec, is_ml).dq_status, analyzed_at |-> at]

la_row(d, rows, rec, is_ml, at) ==
    LET hit == {r \in rows : r.listing_id = rec.listing_id}
        keep == IF d = "sqlite" \/ hit = {} \/ is_ml
                THEN ml_columns(rec, is_ml)
                ELSE LET old == CHOOSE r \in hit : TRUE
                     IN  [predicted_price |-> old.predicted_price,
                          deviation_percentage |-> old.deviation_percentage,
                          dq_status |-> old.dq_status]
    IN  [listing_id |-> rec.listing_id, price_per_sqft |-> rec.price_per_sqft,
         is_anomaly |-> rec.is_anomaly, anomaly_type |-> rec.anomaly_type,
         mean_ppsq |-> rec.mean_ppsq, std_ppsq |-> rec.std_ppsq,
         predicted_price |-> keep.predicted_price,
         deviation_percentage |-> keep.deviation_percentage,
         dq_status |-> keep.dq_status, analyzed_at |-> at]

(* A plain INSERT into a table without the key: the old row stays *)
la_execute_append(d, rows, rec, is_ml, at) ==
    rows \cup {la_row(d, rows, rec, is_ml, at)}

(* A statement that replaces the table's rows, not only the row of its key *)
la_execute_clear(d, rows, rec, is_ml, at) ==
    {la_row(d, rows, rec, is_ml, at)}

la_execute(d, rows, rec, is_ml, at) ==
    LET hit == {r \in rows : r.listing_id = rec.listing_id}
    IN  (rows \ hit) \cup {la_row(d, rows, rec, is_ml, at)}

(* with engine.begin() as conn: the whole batch of records *)
RECURSIVE la_batch(_, _, _, _, _)
la_batch(d, rows, recs, is_ml, at) ==
    IF recs = {} THEN rows
    ELSE LET rec == CHOOSE x \in recs : TRUE
         IN  la_batch(d, la_execute(d, rows, rec, is_ml, at), recs \ {rec}, is_ml, at)

-----------------------------------------------------------------------------
(* analysis/analyze_ml.py: the ML analysis *)

(* SELECT FROM listings WHERE zip_code = :zip AND scrape_timestamp >= :since   *)
(* AND dq_status = 'PASS', since = utcnow() - 90 days                          *)
(* The query without the condition on dq_status *)
load_recent_listings_any(z, day) ==
    {i \in DOMAIN listings :
        /\ listings[i].zip_code = z
        /\ listings[i].scrape_day >= day - LOOKBACK_DAYS}

load_recent_listings(z, day) ==
    {i \in DOMAIN listings :
        /\ listings[i].zip_code = z
        /\ listings[i].scrape_day >= day - LOOKBACK_DAYS
        /\ listings[i].dq_status = "PASS"}

Positive(v) == ~IsNull(v) /\ RGreater(v, RZero)

(* df = df[(df['sq_ft'] > 0) & (df['price'] > 0) & (df['beds'] > 0)] *)
valid_rows(ids) ==
    {i \in ids : Positive(listings[i].sq_ft) /\ Positive(listings[i].price)
                   /\ Positive(listings[i].beds)}

RECURSIVE CopiesOf(_)
CopiesOf(ids) ==
    IF ids = {} THEN 0
    ELSE LET i == CHOOSE x \in ids : TRUE IN listings[i].copies + CopiesOf(ids \ {i})

(* Series.median() of one column over the rows ids, each counted copies times *)
CopiesUpTo(ids, col, v) ==
    CopiesOf({j \in ids : ~IsNull(listings[j][col]) /\ ~RGreater(listings[j][col], v)})

Kth(ids, col, k) ==
    LET vals == {listings[i][col] : i \in {j \in ids : ~IsNull(listings[j][col])}}
        reach == {v \in vals : CopiesUpTo(ids, col, v) >= k}
    IN  CHOOSE v \in reach : \A w \in reach : ~RLess(w, v)

Median(ids, col) ==
    LET n == CopiesOf({j \in ids : ~IsNull(listings[j][col])})
    IN  IF n = 0 THEN NULL
        ELSE IF n % 2 = 1 THEN Kth(ids, col, (n + 1) \div 2)
        ELSE RDiv(RAdd(Kth(ids, col, n \div 2), Kth(ids, col, (n \div 2) + 1)), R(2))

fillna(v, m) == IF IsNull(v) THEN m ELSE v

prepare_features(ids) ==
    LET keep == valid_rows(ids)
    IN  {[listing_id |-> i,
          property_type |-> listings[i].property_type,
          price |-> listings[i].price,
          sq_ft |-> listings[i].sq_ft,
          beds |-> fillna(listings[i].beds, Median(keep, "beds")),
          baths |-> fillna(listings[i].baths, Median(keep, "baths")),
          year_built |-> fillna(listings[i].year_built, Median(keep, "year_built")),
          copies |-> listings[i].copies] : i \in keep}

(* len(df) *)
frame_len(df) == SumCopies(df)

(* train_model with len(df) <= MIN_TRAIN_SIZE for its gate *)
train_gate_inclusive(z, day) ==
    LET raw == load_recent_listings(z, day)
        df == prepare_features(raw)
    IN  IF raw = {} THEN "None"
        ELSE IF df = {} THEN "None"
        ELSE IF frame_len(df) <= MIN_TRAIN_SIZE THEN "None"
        ELSE "fit"

(* train_model up to the fit: "None" when it declines, "fit" when it goes on  *)
(* to scale, fit and save a model                                            *)
train_gate(z, day) ==
    LET raw == load_recent_listings(z, day)
        df == prepare_features(raw)
    IN  IF raw = {} THEN "None"
        ELSE IF df = {} THEN "None"
        ELSE IF frame_len(df) < MIN_TRAIN_SIZE THEN "None"
        ELSE "fit"

features(r) == <<r.sq_ft, r.beds, r.baths, r.year_built>>

RMax(a, b) == IF RLess(a, b) THEN b ELSE a

(* predict_price returning the prediction as the model gives it *)
predict_price_unclamped(model, raw) ==
    IF model = "None" THEN NULL ELSE raw

(* predict_price: raw is model.predict(features_scaled)[0] *)
predict_price(model, raw) ==
    IF model = "None" THEN NULL ELSE RMax(raw, RZero)

(* calculate_deviation with the operands of its difference exchanged *)
calculate_deviation_reversed(actual_price, predicted_price) ==
    IF predicted_price = RZero THEN RZero
    ELSE RMul(RDiv(RSub(predicted_price, actual_price), predicted_price), R(100))

calculate_deviation(actual_price, predicted_price) ==
    IF predicted_price = RZero THEN RZero
    ELSE RMul(RDiv(RSub(actual_price, predicted_price), predicted_price), R(100))

(* is_anomaly with >= for its comparison *)
ml_is_anomaly_inclusive(dev) == ~RLess(RAbs(dev), R(DEVIATION_THRESHOLD))

(* df['is_anomaly'] = df['deviation_percentage'].abs() > DEVIATION_THRESHOLD *)
ml_is_anomaly(dev) == RGreater(RAbs(dev), R(DEVIATION_THRESHOLD))

(* anomaly_type without its 'under-priced' branch *)
ml_anomaly_type_over_only(dev) ==
    IF RGreater(dev, R(DEVIATION_THRESHOLD)) THEN "over-priced"
    ELSE NULLTEXT

ml_anomaly_type(dev) ==
    IF RGreater(dev, R(DEVIATION_THRESHOLD)) THEN "over-priced"
    ELSE IF RLess(dev, R(-DEVIATION_THRESHOLD)) THEN "under-priced"
    ELSE NULLTEXT

(* The statistics "for comparison": grouped by property_type alone *)
ml_groups(df) == {r.property_type : r \in {x \in df : x.property_type # NULLTEXT}}

ml_members(df, t) == {r \in df : r.property_type = t}

with_ppsq(df) ==
    {[listing_id |-> r.listing_id, property_type |-> r.property_type, price |-> r.price,
      features |-> features(r), copies |-> r.copies,
      ppsq |-> RDiv(r.price, r.sq_ft)] : r \in df}

(* A marker that is 'PASS' whether or not the run has a model *)
run_marker_pass(model) == "PASS"

(* 'dq_status': 'PASS' if model is not None else 'STAT_ONLY' *)
run_marker(model) == IF model = "None" THEN "STAT_ONLY" ELSE "PASS"

(* The records list of analyze_and_store: pred gives, for each feature vector, *)
(* what the fitted model predicts for it                                      *)
ml_stats(df) ==
    [t \in ml_groups(df) |->
        LET members == ml_members(df, t)
        IN  [mean |-> AggMean(members), std |-> AggStd(members)]]

ml_records(df, model, pred) ==
    LET frame == with_ppsq(df)
        stats == ml_stats(frame)
    IN  {LET known == r.property_type \in DOMAIN stats
             predicted == IF model = "None" THEN NULL
                          ELSE predict_price(model, pred[r.features])
             dev == IF model = "None" THEN NULL
                    ELSE calculate_deviation(r.price, predicted)
         IN  [listing_id |-> r.listing_id,
              price_per_sqft |-> r.ppsq,
              is_anomaly |-> IF model = "None" THEN FALSE ELSE ml_is_anomaly(dev),
              anomaly_type |-> IF model = "None" THEN NULLTEXT ELSE ml_anomaly_type(dev),
              mean_ppsq |-> IF known THEN stats[r.property_type].mean ELSE NULL,
              std_ppsq |-> IF known THEN stats[r.property_type].std ELSE NULL,
              predicted_price |-> predicted,
              deviation_percentage |-> dev,
              dq_status |-> run_marker(model),
              copies |-> r.copies] : r \in frame}

(* the COUNT query over listings WHERE zip_code = :zip AND dq_status != 'PASS' *)
count_dq_failures(z) ==
    CopiesOf({i \in DOMAIN listings :
                 listings[i].zip_code = z /\ listings[i].dq_status # "PASS"})

(* anomaly_count, opportunity_count, risk_count of the loop over df *)
count_records(recs) == SumCopies(recs)

ml_report(z, dq_count, trained, total, recs) ==
    [zip_code |-> z,
     total_new_listings |-> total,
     dq_failures |-> dq_count,
     model_trained |-> trained,
     ml_anomalies |-> count_records({r \in recs : r.is_anomaly}),
     ml_opportunities |->
         count_records({r \in recs : r.is_anomaly /\ r.anomaly_type = "under-priced"}),
     ml_risks |->
         count_records({r \in recs : r.is_anomaly /\ r.anomaly_type = "over-priced"})]

-----------------------------------------------------------------------------
(* The state machine *)

(* pipelines.py check_data_quality on a cleaned item: area, price, address. *)
(* clean_item has made sq_ft an int.                                        *)
check_data_quality(item) ==
    IF IsNull(item.row.sq_ft)
    THEN [passed |-> FALSE, reason |-> "Missing sq_ft"]
    ELSE IF RLess(item.row.sq_ft, R(MIN_SQ_FT))
    THEN [passed |-> FALSE,
          reason |-> "sq_ft (" \o ToString(item.row.sq_ft[1]) \o ") below minimum ("
                     \o ToString(MIN_SQ_FT) \o ")"]
    ELSE IF IsNull(item.row.price) \/ item.row.price = RZero
    THEN [passed |-> FALSE, reason |-> "Missing or zero price"]
    ELSE IF item.address = ""
    THEN [passed |-> FALSE, reason |-> "Missing address"]
    ELSE [passed |-> TRUE, reason |-> "OK"]

(* cleaned['dq_status'] = ... *)
tagged(item, status) == [item.row EXCEPT !.dq_status = status]

(* open_spider: the counters of the pipeline.  upserts is history: the     *)
(* calls of upsert_listing process_item has made                            *)
NewPipeline == [success_count |-> 0, dq_fail_count |-> 0, upserts |-> 0]

(* No execution of the scheduler's job yet *)
NoExec == [kind |-> "none", step |-> "idle", zip |-> NULLTEXT, runs0 |-> 0,
           scrape |-> "none", analysis |-> "none", report |-> "none"]

(* What DATABASE_URL may hold: the URL of a PostgreSQL server that answers,  *)
(* an sqlite URL, the URL of a server that does not answer, a URL with the  *)
(* placeholders of the sample .env, or nothing                              *)
Urls == {"postgresql", "sqlite", "unreachable", "placeholder", "missing"}

(* config.py with a failed connection left to the importer: no engine *)
ENGINE_fatal(url) ==
    IF url \in {"missing", "unreachable", "placeholder"} THEN "none" ELSE url

(* config.py at import: the dialect of ENGINE.  load_config exits when       *)
(* DATABASE_URL is missing ("none": nothing of the process runs); a URL with *)
(* placeholders, or one whose SELECT 1 fails, is dropped and the engine is   *)
(* created on the local file test_realestate.db                              *)
ENGINE(url) ==
    IF url = "missing" THEN "none"
    ELSE IF url \in {"placeholder", "unreachable"} THEN "sqlite"
    ELSE url

NoRun == [kind |-> "none", outcome |-> "none"]

NoProbe == [kind |-> "none"]

(* What the fitted model may predict in a run *)
RawPredictions == {R(2000), R(2500)}

Init ==
    /\ listings = [i \in {} |-> NULL]
    /\ group_stats = {}
    /\ gs_seq = 0
    /\ listing_analysis = {}
    /\ today = FIRST_DAY
    /\ now = 0
    /\ runs = 0
    /\ exec = NoExec
    /\ pipeline = NewPipeline
    /\ database_url \in {"postgresql", "unreachable"}
    /\ dialect = ENGINE(database_url)
    /\ pc = [p \in Slots |-> "idle"]
    /\ run = [p \in Slots |-> NoRun]
    /\ analysed = {}
    /\ feed \in DOMAIN Feeds
    /\ fed = 0
    /\ probe = NoProbe

(* The behaviours followed end with the last run: a run can still begin, or *)
(* one is under way                                                        *)
RunsAhead ==
    \/ runs < MaxRuns
    \/ \E p \in Slots : pc[p] \in {"stat_verdicts", "ml_score"}

U_ingest == <<group_stats, gs_seq, listing_analysis, today, now, runs, exec, database_url, dialect,
              pc, run, analysed, feed, probe>>

(* seed_demo.py seed: the record is upserted into listings *)
Seed ==
    /\ dialect # "none"
    /\ RunsAhead
    /\ fed < Len(Feeds[feed])
    /\ LET item == Feeds[feed][fed + 1]
       IN  /\ item.via = "seed"
           /\ listings' = upsert_listing(listings, item.listing_id, item.row)
    /\ fed' = fed + 1
    /\ UNCHANGED <<U_ingest, pipeline>>

(* pipelines.py process_item.  An item that fails the quality check is      *)
(* counted and upserted with the reason as its dq_status.  An item that     *)
(* passes is counted; then the format specification of the logger.info line *)
(* is not a valid one, and the ValueError leaves process_item before        *)
(* cleaned['dq_status'] = 'PASS' and upsert_listing are reached.            *)
ProcessItem ==
    /\ dialect # "none"
    /\ RunsAhead
    /\ fed < Len(Feeds[feed])
    /\ LET item == Feeds[feed][fed + 1]
           dq_result == check_data_quality(item)
       IN  /\ item.via = "crawl"
           /\ IF ~dq_result.passed
              THEN /\ pipeline' = [pipeline EXCEPT !.dq_fail_count = @ + 1,
                                                   !.upserts = @ + 1]
                   /\ listings' = upsert_listing(listings, item.listing_id,
                                                 tagged(item, dq_result.reason))
              ELSE /\ pipeline' = [pipeline EXCEPT !.success_count = @ + 1]
                   /\ listings' = listings
    /\ fed' = fed + 1
    /\ UNCHANGED U_ingest

(* The next observation of the feed is handed to its loader *)
Ingest == Seed \/ ProcessItem

(* The calendar date moves on.  The observations of a feed carry the scrape *)
(* timestamps of its crawl, so the crawl is over when its day ends.         *)
AdvanceDay ==
    /\ RunsAhead
    /\ today < MaxDay
    /\ fed = Len(Feeds[feed])
    /\ today' = today + 1
    /\ UNCHANGED <<listings, group_stats, gs_seq, listing_analysis, now, runs, exec, pipeline, database_url,
                   dialect, pc, run, analysed, feed, fed, probe>>

(* A slot is free when no run is under way in it; a finished run's locals stay *)
(* readable until the slot's next run starts                                *)
Free(p) == dialect # "none" /\ pc[p] \in {"idle", "done", "error"}

U_stat == <<listings, today, exec, pipeline, database_url, dialect, feed, fed, probe>>

(* The locals of analyze.py's analyze_and_store.  read_at is the position of *)
(* the crawl when the run read listings; repeat tells that the run before it *)
(* in the slot returned from the same analysis of the same zip, over the    *)
(* same listings and on the same date.                                      *)
(* Another run is between its first and its last step *)
Overlaps(p) == \E q \in Slots \ {p} : pc[q] \in {"stat_verdicts", "ml_score"}

(* The locals of analyze.py's analyze_and_store; started numbers the runs in *)
(* the order they begin, overlapped tells that another run was under way    *)
(* then, wrote_at is the time of the run's listing_analysis batch           *)
StatRun(p, z, outcome, error, df, gs, recs) ==
    [kind |-> "stat", zip |-> z, outcome |-> outcome, error |-> error,
     stat_date |-> today, read_at |-> fed, df |-> df,
     gs_records |-> gs, records |-> recs,
     started |-> runs + 1, overlapped |-> Overlaps(p), wrote_at |-> 0,
     repeat |-> /\ run[p].kind = "stat" /\ run[p].outcome = "returned"
                /\ run[p].zip = z /\ run[p].read_at = fed
                /\ run[p].stat_date = today]

(* analyze.py analyze_and_store, 'No data to analyze' *)
StatNoData(p, z) ==
    /\ Free(p) /\ runs < MaxRuns
    /\ select_zip(z) = {}
    /\ pc' = [pc EXCEPT ![p] = "done"]
    /\ run' = [run EXCEPT ![p] = StatRun(p, z, "returned", "", {}, {}, {})]
    /\ runs' = runs + 1
    /\ UNCHANGED <<group_stats, gs_seq, listing_analysis, now, analysed>>
    /\ UNCHANGED U_stat

(* analyze.py analyze_and_store when no row has sq_ft > 0: df.apply on the    *)
(* empty frame returns the frame itself, and flags[0] raises KeyError        *)
StatEmptyFrame(p, z) ==
    /\ Free(p) /\ runs < MaxRuns
    /\ select_zip(z) # {}
    /\ stat_frame(z) = {}
    /\ pc' = [pc EXCEPT ![p] = "error"]
    /\ run' = [run EXCEPT ![p] = StatRun(p, z, "raised", "KeyError", {}, {}, {})]
    /\ runs' = runs + 1
    /\ UNCHANGED <<group_stats, gs_seq, listing_analysis, now, analysed>>
    /\ UNCHANGED U_stat

(* analyze.py analyze_and_store up to the commit of the group_stats batch *)
StatBaseline(p, z) ==
    /\ Free(p) /\ runs < MaxRuns
    /\ stat_frame(z) # {}
    /\ LET df == stat_frame(z)
           gs == make_gs_records(df, today)
           tbl == gs_batch(dialect, [rows |-> group_stats, seq |-> gs_seq], gs)
       IN  /\ group_stats' = tbl.rows
           /\ gs_seq' = tbl.seq
           /\ run' = [run EXCEPT ![p] =
                        StatRun(p, z, "running", "", df, gs, stat_records(df))]
    /\ pc' = [pc EXCEPT ![p] = "stat_verdicts"]
    /\ runs' = runs + 1
    /\ UNCHANGED <<listing_analysis, now, analysed>>
    /\ UNCHANGED U_stat

(* for rec in records: conn.execute(...): the records whose statements have *)
(* run when the statement of a later record of the batch fails              *)
RECURSIVE run_before(_)
run_before(recs) ==
    IF recs = {} THEN {}
    ELSE LET failing == CHOOSE r \in recs : TRUE
         IN  {recs \ {failing}} \cup run_before(recs \ {failing})

(* The group_stats batch fails after the statements of some of its records: *)
(* the error leaves the with block, and analyze_and_store                   *)
StatBaselineFail(p, z) ==
    /\ Free(p) /\ runs < MaxRuns
    /\ stat_frame(z) # {}
    /\ LET df == stat_frame(z)
           gs == make_gs_records(df, today)
           tbl == [rows |-> group_stats, seq |-> gs_seq]
       IN  /\ gs # {}
           /\ \E written \in run_before(gs) :
                /\ LET kept == rollback(tbl, gs_batch(dialect, tbl, written))
                   IN  group_stats' = kept.rows /\ gs_seq' = kept.seq
           /\ run' = [run EXCEPT ![p] =
                        StatRun(p, z, "raised", "persistence", df, gs, {})]
    /\ pc' = [pc EXCEPT ![p] = "error"]
    /\ runs' = runs + 1
    /\ UNCHANGED <<listing_analysis, now, analysed>>
    /\ UNCHANGED U_stat

record_ids(recs) == {r.listing_id : r \in recs}

(* analyze.py analyze_and_store: the listing_analysis batch commits *)
StatVerdicts(p) ==
    /\ pc[p] = "stat_verdicts"
    /\ listing_analysis' =
           la_batch(dialect, listing_analysis, run[p].records, FALSE, now + 1)
    /\ now' = now + 1
    /\ analysed' = analysed \cup record_ids(run[p].records)
    /\ pc' = [pc EXCEPT ![p] = "done"]
    /\ run' = [run EXCEPT ![p].outcome = "returned", ![p].wrote_at = now + 1]
    /\ UNCHANGED <<group_stats, gs_seq, runs>>
    /\ UNCHANGED U_stat

(* The failure of the batch caught and logged, and the run returning *)
StatVerdictsFail_swallow(p) ==
    /\ pc[p] = "stat_verdicts"
    /\ pc' = [pc EXCEPT ![p] = "done"]
    /\ run' = [run EXCEPT ![p].outcome = "returned"]
    /\ UNCHANGED <<group_stats, gs_seq, listing_analysis, now, runs, analysed>>
    /\ UNCHANGED U_stat

(* The listing_analysis batch fails after the statements of some of its     *)
(* records                                                                  *)
StatVerdictsFail(p) ==
    /\ pc[p] = "stat_verdicts"
    /\ \E written \in run_before(run[p].records) :
         /\ listing_analysis' =
                rollback(listing_analysis,
                         la_batch(dialect, listing_analysis, written, FALSE, now + 1))
    /\ pc' = [pc EXCEPT ![p] = "error"]
    /\ run' = [run EXCEPT ![p].outcome = "raised", ![p].error = "persistence"]
    /\ UNCHANGED <<group_stats, gs_seq, now, runs, analysed>>
    /\ UNCHANGED U_stat

NoReport == [zip_code |-> NULLTEXT]

(* The locals of analyze_ml.py's analyze_and_store.  train_len is len(df) in *)
(* train_model; read_at and repeat are as for the statistical run.          *)
MlRun(p, z, outcome, error, model) ==
    [kind |-> "ml", zip |-> z, outcome |-> outcome, error |-> error, model |-> model,
     dq_count |-> count_dq_failures(z),
     train_len |-> frame_len(prepare_features(load_recent_listings(z, today))),
     run_date |-> today, read_at |-> fed,
     records |-> {}, report |-> NoReport,
     started |-> runs + 1, overlapped |-> Overlaps(p), wrote_at |-> 0,
     repeat |-> /\ run[p].kind = "ml" /\ run[p].outcome = "returned"
                /\ run[p].model = "None" /\ model = "None"
                /\ run[p].zip = z /\ run[p].read_at = fed
                /\ run[p].run_date = today]

(* analyze_ml.py analyze_and_store: the DQ count, then train_model declines *)
MlDecline(p, z) ==
    /\ Free(p) /\ runs < MaxRuns
    /\ train_gate(z, today) = "None"
    /\ pc' = [pc EXCEPT ![p] = "ml_score"]
    /\ run' = [run EXCEPT ![p] = MlRun(p, z, "running", "", "None")]
    /\ runs' = runs + 1
    /\ UNCHANGED <<group_stats, gs_seq, listing_analysis, now, analysed>>
    /\ UNCHANGED U_stat

(* train_model scales, fits and saves a model and returns it *)
MlFit(p, z) ==
    /\ Free(p) /\ runs < MaxRuns
    /\ train_gate(z, today) = "fit"
    /\ pc' = [pc EXCEPT ![p] = "ml_score"]
    /\ run' = [run EXCEPT ![p] = MlRun(p, z, "running", "", "Trained")]
    /\ runs' = runs + 1
    /\ UNCHANGED <<group_stats, gs_seq, listing_analysis, now, analysed>>
    /\ UNCHANGED U_stat

(* scaler.fit_transform, model.fit, os.makedirs or joblib.dump raises: nothing *)
(* in train_model or in analyze_and_store catches it                          *)
MlFitRaises(p, z) ==
    /\ Free(p) /\ runs < MaxRuns
    /\ train_gate(z, today) = "fit"
    /\ pc' = [pc EXCEPT ![p] = "error"]
    /\ run' = [run EXCEPT ![p] = MlRun(p, z, "raised", "training", "None")]
    /\ runs' = runs + 1
    /\ UNCHANGED <<group_stats, gs_seq, listing_analysis, now, analysed>>
    /\ UNCHANGED U_stat

(* analyze_and_store after train_model: 'No data to analyze', return report *)
MlNoData(p) ==
    /\ pc[p] = "ml_score"
    /\ load_recent_listings(run[p].zip, today) = {}
    /\ pc' = [pc EXCEPT ![p] = "done"]
    /\ run' = [run EXCEPT ![p].outcome = "returned",
                          ![p].read_at = fed,
                          ![p].report = ml_report(run[p].zip, run[p].dq_count,
                                                  run[p].model # "None", 0, {})]
    /\ UNCHANGED <<group_stats, gs_seq, listing_analysis, now, runs, analysed>>
    /\ UNCHANGED U_stat

feature_set(df) == {features(r) : r \in df}

(* The functions from feature vectors to raw predictions a run may meet; one *)
(* function when there is no model, for predict_price is not called then     *)
predictions(df, model) ==
    IF model = "None" THEN {[f \in feature_set(df) |-> NULL]}
    ELSE [feature_set(df) -> RawPredictions]

(* analyze_and_store after train_model: load, prepare, score, and the commit *)
(* of the listing_analysis batch (no statement runs for an empty batch)     *)
MlScore(p) ==
    /\ pc[p] = "ml_score"
    /\ load_recent_listings(run[p].zip, today) # {}
    /\ LET df == prepare_features(load_recent_listings(run[p].zip, today))
       IN  \E pred \in predictions(df, run[p].model) :
             LET recs == ml_records(df, run[p].model, pred)
             IN  /\ listing_analysis' =
                        la_batch(dialect, listing_analysis, recs, TRUE, now + 1)
                 /\ analysed' = analysed \cup record_ids(recs)
                 /\ run' = [run EXCEPT ![p].outcome = "returned",
                                       ![p].records = recs,
                                       ![p].wrote_at = IF recs = {} THEN 0 ELSE now + 1,
                                       ![p].repeat = run[p].repeat /\ run[p].read_at = fed
                                                     /\ run[p].run_date = today,
                                       ![p].read_at = fed,
                                       ![p].report =
                                           ml_report(run[p].zip, run[p].dq_count,
                                                     run[p].model # "None",
                                                     frame_len(df), recs)]
                 /\ now' = IF recs = {} THEN now ELSE now + 1
    /\ pc' = [pc EXCEPT ![p] = "done"]
    /\ UNCHANGED <<group_stats, gs_seq, runs>>
    /\ UNCHANGED U_stat

(* The listing_analysis batch of the ML run fails after the statements of   *)
(* some of its records                                                      *)
MlScoreFail(p) ==
    /\ pc[p] = "ml_score"
    /\ LET df == prepare_features(load_recent_listings(run[p].zip, today))
       IN  /\ df # {}
           /\ \E pred \in predictions(df, run[p].model) :
                LET recs == ml_records(df, run[p].model, pred)
                IN  /\ \E written \in run_before(recs) :
                         /\ listing_analysis' =
                                rollback(listing_analysis,
                                         la_batch(dialect, listing_analysis, written,
                                                  TRUE, now + 1))
                    /\ run' = [run EXCEPT ![p].outcome = "raised",
                                          ![p].error = "persistence"]
    /\ pc' = [pc EXCEPT ![p] = "error"]
    /\ UNCHANGED <<group_stats, gs_seq, now, runs, analysed>>
    /\ UNCHANGED U_stat

(* The steps of the runs in the slots S *)
RunSteps(S) ==
    \/ \E p \in S, z \in Zips : StatNoData(p, z)
    \/ \E p \in S, z \in Zips : StatEmptyFrame(p, z)
    \/ \E p \in S, z \in Zips : StatBaseline(p, z)
    \/ \E p \in S, z \in Zips : StatBaselineFail(p, z)
    \/ \E p \in S : StatVerdicts(p)
    \/ \E p \in S : StatVerdictsFail(p)
    \/ \E p \in S, z \in Zips : MlDecline(p, z)
    \/ \E p \in S, z \in Zips : MlFit(p, z)
    \/ \E p \in S, z \in Zips : MlFitRaises(p, z)
    \/ \E p \in S : MlNoData(p)
    \/ \E p \in S : MlScore(p)
    \/ \E p \in S : MlScoreFail(p)

(* The steps of the runs in the slots S, of the crawl and of the calendar *)
NextFor(S) == Ingest \/ AdvanceDay \/ RunSteps(S)

(* Runs one after the other, as the scheduler starts them *)
Next == NextFor({1})

Spec == Init /\ [][Next]_vars

(* Every content of DATABASE_URL *)
InitConfig ==
    /\ listings = [i \in {} |-> NULL]
    /\ group_stats = {}
    /\ gs_seq = 0
    /\ listing_analysis = {}
    /\ today = FIRST_DAY
    /\ now = 0
    /\ runs = 0
    /\ exec = NoExec
    /\ pipeline = NewPipeline
    /\ database_url \in Urls
    /\ dialect = ENGINE(database_url)
    /\ pc = [p \in Slots |-> "idle"]
    /\ run = [p \in Slots |-> NoRun]
    /\ analysed = {}
    /\ feed \in DOMAIN Feeds
    /\ fed = 0
    /\ probe = NoProbe

(* run_pipeline crawls, then analyses: the observations are stored before the *)
(* first run begins                                                         *)
CrawlFirst == Ingest /\ runs = 0

(* Runs that may overlap: a run still writing when the next one starts *)
NextOverlap == CrawlFirst \/ AdvanceDay \/ RunSteps(Slots)

(* The crawl and the runs that follow it, under each content of DATABASE_URL *)
NextConfig == CrawlFirst \/ RunSteps({1})

SpecConfig == InitConfig /\ [][NextConfig]_vars

SpecOverlap == Init /\ [][NextOverlap]_vars

-----------------------------------------------------------------------------
(* The scheduled job: run_daily_ml.py run_pipeline ("daily_ml": scrape, ML   *)
(* analysis, reports) and run_daily.py run_spider ("daily": scrape,         *)
(* statistical analysis).  exec.step is the step the execution is in;       *)
(* scrape, analysis and report tell how each step ended; runs0 is the       *)
(* number of analysis runs begun before the execution.                      *)

U_exec == <<listings, group_stats, gs_seq, listing_analysis, today, now, runs, pipeline,
            database_url, dialect, pc, run, analysed, feed, fed, probe>>

(* The job begins: "[STEP 1/3] Scraping listings from web..." *)
PipelineStart(kind, z) ==
    /\ dialect # "none"
    /\ exec.step \in {"idle", "ended"}
    /\ runs < MaxRuns
    /\ exec' = [kind |-> kind, step |-> "scrape", zip |-> z, runs0 |-> runs,
                scrape |-> "none", analysis |-> "none", report |-> "none"]
    /\ UNCHANGED U_exec

(* process.start(): the spider's items go through process_item *)
ScrapeItem == exec.step = "scrape" /\ ProcessItem

(* process.start() returns: the crawl has yielded its items *)
ScrapeDone ==
    /\ exec.step = "scrape"
    /\ IF fed = Len(Feeds[feed]) THEN TRUE ELSE Feeds[feed][fed + 1].via # "crawl"
    /\ exec' = [exec EXCEPT !.step = "analysis", !.scrape = "ok"]
    /\ UNCHANGED U_exec

(* An exception in step 1 that goes on to the analysis all the same *)
ScrapeFails_continue ==
    /\ exec.step = "scrape"
    /\ exec' = [exec EXCEPT !.step = "analysis", !.scrape = "failed"]
    /\ UNCHANGED U_exec

(* get_project_settings, CrawlerProcess, crawl or start raises: run_pipeline *)
(* logs "Scrape failed" and returns; run_spider is left by the exception     *)
ScrapeFails ==
    /\ exec.step = "scrape"
    /\ exec' = [exec EXCEPT !.step = "ended", !.scrape = "failed"]
    /\ UNCHANGED U_exec

(* analyze_and_store(TARGET_ZIP) is called: once, in the analysis step *)
MayAnalyse(kind) ==
    exec.kind = kind /\ exec.step = "analysis" /\ runs = exec.runs0

(* analyze_and_store has returned.  run_pipeline logs the fields of the      *)
(* summary and goes on to the reports; run_spider ends.                     *)
AnalysisReturned ==
    /\ exec.step = "analysis" /\ runs = exec.runs0 + 1
    /\ pc[1] = "done"
    /\ exec' = [exec EXCEPT !.analysis = "returned",
                            !.step = IF exec.kind = "daily_ml" THEN "report" ELSE "ended"]
    /\ UNCHANGED U_exec

(* analyze_and_store has raised: run_pipeline logs "Analysis failed" and    *)
(* returns; run_spider is left by the exception                             *)
AnalysisFailed ==
    /\ exec.step = "analysis" /\ runs = exec.runs0 + 1
    /\ pc[1] = "error"
    /\ exec' = [exec EXCEPT !.analysis = "failed", !.step = "ended"]
    /\ UNCHANGED U_exec

(* generate_report and print_report on the summary; their exception is      *)
(* logged, and the execution completes either way                           *)
GenerateReport ==
    /\ exec.step = "report"
    /\ \E outcome \in {"generated", "failed"} :
          exec' = [exec EXCEPT !.report = outcome, !.step = "ended"]
    /\ UNCHANGED U_exec

(* seed_demo run while no job is executing *)
SeedBetween == exec.step \in {"idle", "ended"} /\ Seed

NextPipeline ==
    \/ \E kind \in {"daily_ml", "daily"}, z \in Zips : PipelineStart(kind, z)
    \/ SeedBetween
    \/ ScrapeItem
    \/ ScrapeDone
    \/ ScrapeFails
    \/ MayAnalyse("daily") /\ StatNoData(1, exec.zip)
    \/ MayAnalyse("daily") /\ StatEmptyFrame(1, exec.zip)
    \/ MayAnalyse("daily") /\ StatBaseline(1, exec.zip)
    \/ MayAnalyse("daily") /\ StatBaselineFail(1, exec.zip)
    \/ StatVerdicts(1)
    \/ StatVerdictsFail(1)
    \/ MayAnalyse("daily_ml") /\ MlDecline(1, exec.zip)
    \/ MayAnalyse("daily_ml") /\ MlFit(1, exec.zip)
    \/ MayAnalyse("daily_ml") /\ MlFitRaises(1, exec.zip)
    \/ MlNoData(1)
    \/ MlScore(1)
    \/ MlScoreFail(1)
    \/ AnalysisReturned
    \/ AnalysisFailed
    \/ GenerateReport

SpecPipeline == Init /\ [][NextPipeline]_vars

-----------------------------------------------------------------------------
(* The classifiers as pure functions: the inputs are drawn at the start and  *)
(* one step applies flag_row, or the scoring of analyze_ml.py, to them       *)

PpsqProbes ==
    {Rat(84999, 1000), R(85), Rat(85001, 1000), R(100),
     Rat(114999, 1000), R(115), Rat(115001, 1000), NULL}

MuProbes == {R(85), R(100), NULL}

(* The standard deviations themselves; flag_row is handed their squares *)
StdProbes == {R(0), R(10), R(20), NULL}

ActualProbes ==
    {R(160000), R(169999), R(170000), R(200000), R(230000), R(230001), R(250000)}

(* model.predict(features_scaled)[0] *)
RawProbes == {R(-50000), R(0), R(200000)}

Square(v) == IF IsNull(v) THEN NULL ELSE RMul(v, v)

InitClassify ==
    /\ listings = [i \in {} |-> NULL]
    /\ group_stats = {}
    /\ gs_seq = 0
    /\ listing_analysis = {}
    /\ today = FIRST_DAY
    /\ now = 0
    /\ runs = 0
    /\ exec = NoExec
    /\ pipeline = NewPipeline
    /\ database_url = "sqlite"
    /\ dialect = ENGINE(database_url)
    /\ pc = [p \in Slots |-> "idle"]
    /\ run = [p \in Slots |-> NoRun]
    /\ analysed = {}
    /\ feed = 1
    /\ fed = 0
    /\ probe \in [kind : {"flag_in"}, ppsq : PpsqProbes, mu : MuProbes, std : StdProbes]
                  \cup [kind : {"score_in"}, actual : ActualProbes, raw : RawProbes]

U_tables == <<listings, group_stats, gs_seq, listing_analysis, today, now, runs,
              exec, pipeline, database_url, dialect, pc, run, analysed, feed, fed>>

(* analyze.py: flags = df.apply(flag_row, axis=1) on one row *)
FlagRow ==
    /\ probe.kind = "flag_in"
    /\ LET flag == flag_row(probe.ppsq, probe.mu, Square(probe.std))
       IN  probe' = [kind |-> "flag_out", ppsq |-> probe.ppsq, mu |-> probe.mu,
                     std |-> probe.std,
                     is_anomaly |-> flag[1], anomaly_type |-> flag[2]]
    /\ UNCHANGED U_tables

(* analyze_ml.py analyze_and_store, the scoring of one row with a model *)
Score ==
    /\ probe.kind = "score_in"
    /\ LET predicted == predict_price("Trained", probe.raw)
           dev == calculate_deviation(probe.actual, predicted)
       IN  probe' = [kind |-> "score_out", actual |-> probe.actual, raw |-> probe.raw,
                     predicted_price |-> predicted,
                     deviation_percentage |-> dev,
                     is_anomaly |-> ml_is_anomaly(dev),
                     anomaly_type |-> ml_anomaly_type(dev)]
    /\ UNCHANGED U_tables

NextClassify == FlagRow \/ Score

SpecClassify == InitClassify /\ [][NextClassify]_vars

-----------------------------------------------------------------------------
(* Properties of the analysis runs *)

VerdictsOf(id) == {r \in listing_analysis : r.listing_id = id}

(* group_stats without the ids AUTOINCREMENT hands out *)
BaselineValues ==
    {[zip_code |-> r.zip_code, property_type |-> r.property_type,
      stat_date |-> r.stat_date, mean_ppsq |-> r.mean_ppsq,
      std_ppsq |-> r.std_ppsq, count_listings |-> r.count_listings] : r \in group_stats}

(* listing_analysis without the time of the analysis *)
VerdictValues ==
    {[listing_id |-> r.listing_id, price_per_sqft |-> r.price_per_sqft,
      is_anomaly |-> r.is_anomaly, anomaly_type |-> r.anomaly_type,
      mean_ppsq |-> r.mean_ppsq, std_ppsq |-> r.std_ppsq,
      predicted_price |-> r.predicted_price,
      deviation_percentage |-> r.deviation_percentage,
      dq_status |-> r.dq_status] : r \in listing_analysis}

(* C1: a run that repeats the run before it (same analysis, same zip, same   *)
(* listings, same date; for the ML analysis, both without a model) leaves the *)
(* group_stats rows and the listing_analysis rows as the first run left them: *)
(* the same keys, no key twice, the same values.                             *)
C1_Idempotence ==
    [][\A p \in Slots :
         /\ (pc[p] # "stat_verdicts" /\ pc'[p] = "stat_verdicts" /\ run'[p].repeat)
              => /\ BaselineValues' = BaselineValues
                 /\ Cardinality(group_stats') = Cardinality(group_stats)
         /\ (pc[p] \in {"stat_verdicts", "ml_score"} /\ pc'[p] = "done"
               /\ run'[p].repeat)
              => /\ VerdictValues' = VerdictValues
                 /\ Cardinality(listing_analysis') = Cardinality(listing_analysis)]_vars

(* C2: group_stats holds at most one row for each (zip_code, property_type,  *)
(* stat_date).                                                               *)
C2_OneBaselinePerKey ==
    \A r1, r2 \in group_stats : gs_key(r1) = gs_key(r2) => r1 = r2

(* C3: listing_analysis holds exactly one row for every listing id a         *)
(* committed batch of either analysis has held, and never two rows of one id. *)
C3_OneVerdictPerListing ==
    /\ \A id \in analysed : Cardinality(VerdictsOf(id)) = 1
    /\ \A id \in Ids : Cardinality(VerdictsOf(id)) <= 1

(* Two batches have committed; one listing has the row of the first, another *)
(* the row the second wrote over the first's                                 *)
C3_Witness ==
    /\ now = 2
    /\ \E r \in listing_analysis : r.analyzed_at = 1
    /\ \E p \in Slots :
         /\ pc[p] = "done"
         /\ \E r \in listing_analysis :
              r.analyzed_at = 2 /\ r.listing_id \in record_ids(run[p].records)
                                /\ r.listing_id # "B"

(* C4: a step changes the listing_analysis rows of a listing id only when it *)
(* is the commit of a run's batch and the run's records hold that id.        *)
C4_UntouchedVerdicts ==
    [][\A id \in Ids :
         VerdictsOf(id)' # VerdictsOf(id)
           => \E p \in Slots :
                /\ pc[p] \in {"stat_verdicts", "ml_score"}
                /\ pc'[p] = "done"
                /\ id \in record_ids(run'[p].records)]_vars

(* A run has committed its batch for a zip, and a listing of that zip that   *)
(* was not in the run's population still has the row of an earlier run       *)
C4_Witness ==
    \E p \in Slots :
      /\ pc[p] = "done"
      /\ run[p].records # {}
      /\ \E r \in listing_analysis :
           /\ r.listing_id \notin record_ids(run[p].records)
           /\ r.listing_id \in DOMAIN listings
           /\ listings[r.listing_id].zip_code = run[p].zip
           /\ r.analyzed_at < now

(* The rows of a segment of df that have a price per square foot, when the   *)
(* segment has exactly one listing with one                                  *)
lone_listing(df, g) ==
    LET have == {r \in group_members(df, g) : ~IsNull(r.ppsq)}
    IN  IF Cardinality(have) = 1 /\ \A r \in have : r.copies = 1 THEN have ELSE {}

(* The row of a key that group_stats got last *)
latest_baseline(key) ==
    LET rows == {r \in group_stats : gs_key(r) = key}
    IN  CHOOSE r \in rows : \A q \in rows : q.id <= r.id

(* C7: when a segment of a statistical run has exactly one listing with a    *)
(* price per square foot, the baseline the run stores for the segment has a  *)
(* null std and count 1, the run raises nothing of its own (only a failed    *)
(* batch ends it early), and the verdict the run stores for that listing has *)
(* is_anomaly false and a null anomaly_type.                                 *)
C7_MinimumGroupSize ==
    \A p \in Slots :
      run[p].kind = "stat" =>
        \A g \in stat_groups(run[p].df) :
          lone_listing(run[p].df, g) # {} =>
            /\ run[p].error \in {"", "persistence"}
            /\ pc[p] \in {"stat_verdicts", "done"} =>
                 LET b == latest_baseline(<<g[1], g[2], run[p].stat_date>>)
                 IN  IsNull(b.std_ppsq) /\ b.count_listings = 1
            /\ \A r \in lone_listing(run[p].df, g) :
                 /\ \A v \in run[p].records :
                      v.listing_id = r.listing_id
                        => ~v.is_anomaly /\ v.anomaly_type = NULLTEXT
                 /\ pc[p] = "done" =>
                      /\ VerdictsOf(r.listing_id) # {}
                      /\ \A v \in VerdictsOf(r.listing_id) :
                           ~v.is_anomaly /\ v.anomaly_type = NULLTEXT

(* A statistical run has returned for a population with a one-listing segment *)
(* next to a segment of several listings                                      *)
C7_Witness ==
    \E p \in Slots :
      /\ pc[p] = "done" /\ run[p].kind = "stat"
      /\ \E g \in stat_groups(run[p].df) : lone_listing(run[p].df, g) # {}
      /\ \E g \in stat_groups(run[p].df) :
           frame_len(group_members(run[p].df, g)) > 1

(* C8: an ML run whose prepared frame has fewer than MIN_TRAIN_SIZE rows (so *)
(* one of 499) gets no model and reports model_trained false; one of         *)
(* MIN_TRAIN_SIZE rows or more goes on to the fit, and reports model_trained *)
(* true when the fit returns a model.                                        *)
C8_ModelGating ==
    \A p \in Slots :
      run[p].kind = "ml" =>
        /\ run[p].train_len < MIN_TRAIN_SIZE =>
             /\ run[p].model = "None"
             /\ run[p].error # "training"
             /\ pc[p] = "done" => ~run[p].report.model_trained
        /\ run[p].train_len >= MIN_TRAIN_SIZE =>
             /\ run[p].model = "Trained" \/ run[p].error = "training"
             /\ (pc[p] = "done" /\ run[p].model = "Trained")
                  => run[p].report.model_trained

(* A run over exactly MIN_TRAIN_SIZE rows has returned with a model *)
C8_Witness ==
    \E p \in Slots :
      /\ pc[p] = "done" /\ run[p].kind = "ml"
      /\ run[p].train_len = MIN_TRAIN_SIZE
      /\ run[p].report.model_trained

(* A run over MIN_TRAIN_SIZE - 1 rows has returned without one *)
C8_WitnessBelow ==
    \E p \in Slots :
      /\ pc[p] = "done" /\ run[p].kind = "ml"
      /\ run[p].train_len = MIN_TRAIN_SIZE - 1
      /\ ~run[p].report.model_trained

(* C10: no ML run ends with the error of a failed training: the failure is   *)
(* caught, and the run goes on without a model.                              *)
C10_TrainingFailureCaught ==
    \A p \in Slots :
      ~(pc[p] = "error" /\ run[p].kind = "ml" /\ run[p].error = "training")

-----------------------------------------------------------------------------
(* Properties of the classifiers *)

Normal(out) == ~out.is_anomaly /\ out.anomaly_type = NULLTEXT

OverPriced(out) == out.is_anomaly /\ out.anomaly_type = "over-priced"

UnderPriced(out) == out.is_anomaly /\ out.anomaly_type = "under-priced"

(* flag_row has been applied to a row of a segment with mean 100 and std 10 *)
Segment100_10 ==
    probe.kind = "flag_out" /\ probe.mu = R(100) /\ probe.std = R(10)

(* C5, as the specification states it: with mean 100, std 10 and k = 1.5, a  *)
(* price per area of 115 is over-priced, 114.999 is normal, 85 is            *)
(* under-priced and 85.001 is normal.                                        *)
C5_BoundaryAsStated ==
    Segment100_10 =>
      /\ probe.ppsq = R(115) => OverPriced(probe)
      /\ probe.ppsq = Rat(114999, 1000) => Normal(probe)
      /\ probe.ppsq = R(85) => UnderPriced(probe)
      /\ probe.ppsq = Rat(85001, 1000) => Normal(probe)

(* C5, amended: with mean 100, std 10 and k = 1.5, the prices per area 115,  *)
(* 114.999, 85 and 85.001 are all normal; over-priced begins above 115       *)
(* (115.001) and under-priced below 85 (84.999).                             *)
C5_Boundary ==
    Segment100_10 =>
      /\ probe.ppsq \in {R(115), Rat(114999, 1000), R(85), Rat(85001, 1000)}
           => Normal(probe)
      /\ probe.ppsq = Rat(115001, 1000) => OverPriced(probe)
      /\ probe.ppsq = Rat(84999, 1000) => UnderPriced(probe)

C5_Witness == Segment100_10 /\ probe.ppsq = R(115) /\ Normal(probe)

(* x is mu + k*std or mu - k*std *)
at_band(x, mu, std) ==
    /\ ~IsNull(x) /\ ~IsNull(mu) /\ ~IsNull(std)
    /\ \/ x = RAdd(mu, RMul(THRESHOLD_MULTIPLIER, std))
       \/ x = RSub(mu, RMul(THRESHOLD_MULTIPLIER, std))

(* C6: a price per area that equals mu + k*sigma or mu - k*sigma is normal   *)
(* for flag_row, and a deviation that equals +15 or -15 is normal for the    *)
(* scoring of the ML analysis.                                               *)
C6_StrictInequalities ==
    /\ (probe.kind = "flag_out" /\ at_band(probe.ppsq, probe.mu, probe.std))
         => Normal(probe)
    /\ (probe.kind = "score_out"
          /\ probe.deviation_percentage
               \in {R(DEVIATION_THRESHOLD), R(-DEVIATION_THRESHOLD)})
         => Normal(probe)

(* A listing scored at exactly +15 percent *)
C6_Witness ==
    /\ probe.kind = "score_out"
    /\ probe.deviation_percentage = R(DEVIATION_THRESHOLD)
    /\ Normal(probe)

(* A row exactly at the lower band of a segment with a std above 0 *)
C6_WitnessBand ==
    /\ probe.kind = "flag_out"
    /\ probe.std \in {R(10), R(20)}
    /\ ~IsNull(probe.ppsq) /\ ~IsNull(probe.mu)
    /\ probe.ppsq = RSub(probe.mu, RMul(THRESHOLD_MULTIPLIER, probe.std))
    /\ Normal(probe)

(* actual is more than 15 percent below predicted *)
far_below(actual, predicted) ==
    RLess(RMul(actual, R(100)), RMul(predicted, R(100 - DEVIATION_THRESHOLD)))

(* The worked example and its mirror image *)
sign_examples ==
    /\ (probe.actual = R(250000) /\ probe.predicted_price = R(200000))
         => probe.deviation_percentage = R(25) /\ OverPriced(probe)
    /\ far_below(probe.actual, probe.predicted_price) => UnderPriced(probe)

(* C9, as the specification states it: the deviation is positive exactly     *)
(* when the actual price exceeds the predicted price; predicted 200000 and   *)
(* actual 250000 give +25 and over-priced; an actual price more than 15      *)
(* percent below the prediction is under-priced.                             *)
C9_SignAsStated ==
    probe.kind = "score_out" =>
      /\ RGreater(probe.deviation_percentage, RZero)
           <=> RGreater(probe.actual, probe.predicted_price)
      /\ sign_examples

(* C9, amended: for a predicted price above 0, the deviation is positive     *)
(* exactly when the actual price exceeds the predicted price (200000 and     *)
(* 250000 give +25, over-priced; more than 15 percent below is under-priced);*)
(* for a predicted price of 0 the deviation is 0.                            *)
C9_SignConvention ==
    probe.kind = "score_out" =>
      /\ RGreater(probe.predicted_price, RZero) =>
           /\ RGreater(probe.deviation_percentage, RZero)
                <=> RGreater(probe.actual, probe.predicted_price)
           /\ sign_examples
      /\ probe.predicted_price = RZero => probe.deviation_percentage = RZero

C9_Witness ==
    /\ probe.kind = "score_out"
    /\ probe.actual = R(250000) /\ probe.predicted_price = R(200000)
    /\ probe.deviation_percentage = R(25) /\ OverPriced(probe)

-----------------------------------------------------------------------------
(* Properties of the ML analysis without a model *)

(* The ML runs that have returned after their batch, with or without a model *)
ml_done(p) == pc[p] = "done" /\ run[p].kind = "ml"

(* C11: in an ML run without a model every analysed listing is classified by *)
(* the statistical rule: the row stored for it is flagged over-priced when   *)
(* its price per area is above mu + 1.5*sigma of its segment, under-priced   *)
(* when below mu - 1.5*sigma, and normal otherwise.                          *)
C11_FallbackClassifies ==
    \A p \in Slots :
      (ml_done(p) /\ run[p].model = "None") =>
        \A r \in run[p].records :
          \A v \in VerdictsOf(r.listing_id) :
            <<v.is_anomaly, v.anomaly_type>>
              = flag_row(v.price_per_sqft, v.mean_ppsq, v.std_ppsq)

(* C12: every row an ML run stores has dq_status 'PASS' if and only if the   *)
(* run trained a model, and 'STAT_ONLY' otherwise; the rows of a run without *)
(* a model have a null predicted_price and a null deviation_percentage.      *)
C12_StrategyMarker ==
    \A p \in Slots :
      ml_done(p) =>
        \A r \in run[p].records :
          \A v \in VerdictsOf(r.listing_id) :
            /\ v.dq_status = "PASS" <=> run[p].model = "Trained"
            /\ v.dq_status = "PASS" <=> run[p].report.model_trained
            /\ v.dq_status \in {"PASS", "STAT_ONLY"}
            /\ run[p].model = "None" =>
                 IsNull(v.predicted_price) /\ IsNull(v.deviation_percentage)

(* A run without a model has stored a row *)
C12_Witness ==
    \E p \in Slots :
      /\ ml_done(p) /\ run[p].model = "None"
      /\ \E r \in run[p].records :
           \E v \in VerdictsOf(r.listing_id) :
             v.dq_status = "STAT_ONLY" /\ IsNull(v.predicted_price)

(* A run with a model has stored a row *)
C12_WitnessModel ==
    \E p \in Slots :
      /\ ml_done(p) /\ run[p].model = "Trained"
      /\ \E r \in run[p].records :
           \E v \in VerdictsOf(r.listing_id) :
             v.dq_status = "PASS" /\ ~IsNull(v.predicted_price)

SummaryFields ==
    {"zip_code", "total_new_listings", "dq_failures", "model_trained",
     "ml_anomalies", "ml_opportunities", "ml_risks"}

(* C13: every ML run that has ended without a persistence failure has        *)
(* returned a summary with the counts of listings, quality failures,         *)
(* anomalies, opportunities and risks and with model_trained, also for an    *)
(* empty population, for one the structural filter empties, and without a    *)
(* model.                                                                    *)
C13_SummaryAlways ==
    \A p \in Slots :
      (run[p].kind = "ml" /\ pc[p] \in {"done", "error"}
         /\ run[p].error # "persistence")
        => /\ run[p].outcome = "returned"
           /\ DOMAIN run[p].report = SummaryFields

(* A degraded run that does return a summary: no listing to analyse *)
C13_EmptyPopulation ==
    \E p \in Slots :
      /\ ml_done(p) /\ run[p].records = {}
      /\ run[p].report.total_new_listings = 0
      /\ DOMAIN run[p].report = SummaryFields

-----------------------------------------------------------------------------
(* Properties of the batches *)

(* The rows of group_stats and of listing_analysis that hold what a record  *)
(* of a batch carries                                                       *)
baseline_stored(rec) ==
    \E b \in group_stats :
      /\ gs_key(b) = gs_key(rec)
      /\ b.mean_ppsq = rec.mean_ppsq /\ b.std_ppsq = rec.std_ppsq
      /\ b.count_listings = rec.count_listings

verdict_stored(rec) ==
    \E v \in VerdictsOf(rec.listing_id) :
      /\ v.price_per_sqft = rec.price_per_sqft
      /\ v.is_anomaly = rec.is_anomaly /\ v.anomaly_type = rec.anomaly_type
      /\ v.mean_ppsq = rec.mean_ppsq /\ v.std_ppsq = rec.std_ppsq

(* C14: a run whose baseline batch or verdict batch has failed ends with the *)
(* error raised, not with a return; a run that has returned has its batches  *)
(* stored.                                                                   *)
C14_PersistenceFailureRaised ==
    \A p \in Slots :
      /\ (run[p].kind \in {"stat", "ml"} /\ run[p].error = "persistence")
           => pc[p] = "error" /\ run[p].outcome = "raised"
      /\ (pc[p] = "done" /\ run[p].kind \in {"stat", "ml"})
           => /\ run[p].error = ""
              /\ \A rec \in run[p].records : verdict_stored(rec)
              /\ run[p].kind = "stat"
                   => \A rec \in run[p].gs_records : baseline_stored(rec)

(* The verdict batch of a statistical run has failed after its baseline      *)
(* batch was stored                                                          *)
C14_Witness ==
    \E p \in Slots :
      /\ pc[p] = "error" /\ run[p].kind = "stat"
      /\ run[p].error = "persistence" /\ run[p].outcome = "raised"
      /\ run[p].records # {}
      /\ \A rec \in run[p].gs_records : baseline_stored(rec)

(* C15: a step in which a batch fails leaves the table of the batch with     *)
(* exactly the rows it held before the batch began.                          *)
C15_BatchAtomic ==
    [][\A p \in Slots :
         (pc[p] # "error" /\ pc'[p] = "error" /\ run'[p].error = "persistence")
           => /\ listing_analysis' = listing_analysis
              /\ group_stats' = group_stats]_vars

(* A verdict batch of several records has failed over a table that held rows *)
C15_Witness ==
    \E p \in Slots :
      /\ pc[p] = "error" /\ run[p].kind = "stat"
      /\ run[p].error = "persistence"
      /\ Cardinality(run[p].records) >= 2
      /\ \E rec \in run[p].records : VerdictsOf(rec.listing_id) # {}
      /\ \E rec \in run[p].records : VerdictsOf(rec.listing_id) = {}

-----------------------------------------------------------------------------
(* Quality exclusion *)

passing(ids) == {i \in ids : listings[i].dq_status = "PASS"}

(* C16: a listing whose quality status is not PASS contributes to no        *)
(* segment's baseline in the statistical analysis nor in the ML analysis,   *)
(* and is no training row: while the listings are as the run read them,     *)
(* every row of the statistical run's frame is a PASS listing and every     *)
(* baseline count is the number of PASS listings of the segment, and the    *)
(* training rows of an ML run number no more than the PASS listings of the  *)
(* zip.                                                                     *)
C16_QualityExclusion ==
    \A p \in Slots :
        /\ (run[p].kind = "stat" /\ run[p].read_at = fed) =>
               /\ \A r \in run[p].df : listings[r.listing_id].dq_status = "PASS"
               /\ \A rec \in run[p].gs_records :
                     rec.count_listings =
                        CopiesOf(passing({i \in select_zip(run[p].zip) :
                                    listings[i].property_type = rec.property_type}))
        /\ (run[p].kind = "ml" /\ run[p].read_at = fed /\ run[p].run_date = today) =>
               run[p].train_len <= CopiesOf(passing(select_zip(run[p].zip)))

-----------------------------------------------------------------------------
(* Scoring eligibility *)

(* The filter of the training rows: quality status PASS, inside the lookback *)
(* window, positive area, price and bedroom count                           *)
eligible(z) ==
    {i \in select_zip(z) :
        /\ listings[i].dq_status = "PASS"
        /\ listings[i].scrape_day >= today - LOOKBACK_DAYS
        /\ Positive(listings[i].sq_ft) /\ Positive(listings[i].price)
        /\ Positive(listings[i].beds)}

(* An ML run that has returned, with the listings and the date as it read them *)
ml_fresh(p) ==
    /\ ml_done(p) /\ run[p].outcome = "returned"
    /\ run[p].read_at = fed /\ run[p].run_date = today

-----------------------------------------------------------------------------
(* Upsert by identifier *)

(* The items of the feed so far for which an upsert was issued: the records *)
(* of seed, and the items process_item carried as far as upsert_listing     *)
ingested ==
    {k \in 1..fed : \/ Feeds[feed][k].via = "seed"
                     \/ ~check_data_quality(Feeds[feed][k]).passed}

(* The row upsert_listing was handed for an ingested item *)
upserted_row(item) ==
    IF item.via = "seed" THEN item.row
    ELSE tagged(item, check_data_quality(item).reason)

observations(id) == {k \in ingested : Feeds[feed][k].listing_id = id}

latest_observation(id) ==
    Feeds[feed][CHOOSE k \in observations(id) : \A j \in observations(id) : j <= k]

-----------------------------------------------------------------------------
(* Imputation of the covariates *)

Covariates == {"beds", "baths", "year_built"}

(* C19: a listing with positive price and area of which the bedroom count,  *)
(* the bathroom count or the construction year is missing is kept in the    *)
(* prepared population, with that field set to the median of the column     *)
(* over the surviving rows: it is a row of the frame prepare_features       *)
(* returns, and has a record in an ML run that read the listings as they    *)
(* are.                                                                     *)
C19_Imputation ==
    \A z \in Zips :
        LET ids == load_recent_listings(z, today)
            df == prepare_features(ids)
            survivors == {r.listing_id : r \in df}
        IN  \A i \in ids :
              (/\ Positive(listings[i].price) /\ Positive(listings[i].sq_ft)
               /\ \E col \in Covariates : IsNull(listings[i][col]))
              => /\ \E r \in df :
                      /\ r.listing_id = i
                      /\ \A col \in Covariates :
                            IsNull(listings[i][col]) => r[col] = Median(survivors, col)
                 /\ \A p \in Slots :
                      (ml_fresh(p) /\ run[p].zip = z) => i \in record_ids(run[p].records)

-----------------------------------------------------------------------------
(* Overlapping runs *)

(* The runs have all returned, they are runs of one zip, and one of them    *)
(* began while another was under way                                        *)
overlapped_runs ==
    /\ \A p \in Slots : pc[p] = "done" /\ run[p].outcome = "returned"
    /\ \A p, q \in Slots : run[p].zip = run[q].zip
    /\ \E p \in Slots : run[p].overlapped

baseline_writers(key) ==
    {p \in Slots : run[p].kind = "stat" /\ \E rec \in run[p].gs_records : gs_key(rec) = key}

(* The record of the run that wrote the baseline key last: the group_stats  *)
(* batch is the first write of a run                                        *)
last_baseline(key) ==
    LET last == CHOOSE p \in baseline_writers(key) :
                    \A q \in baseline_writers(key) : run[q].started <= run[p].started
    IN  CHOOSE rec \in run[last].gs_records : gs_key(rec) = key

verdict_writers(id) == {p \in Slots : id \in record_ids(run[p].records)}

last_verdict_writer(id) ==
    CHOOSE p \in verdict_writers(id) :
        \A q \in verdict_writers(id) : run[q].wrote_at <= run[p].wrote_at

(* C20: when two analysis runs of one zip overlap, in any interleaving of   *)
(* their batches, then after both have finished every baseline key and      *)
(* every verdict key they wrote has exactly one row, holding the values     *)
(* written by the run that wrote the key last.                              *)
C20_LastWriterWins ==
    overlapped_runs =>
        /\ \A p \in Slots : run[p].kind = "stat" =>
              \A rec \in run[p].gs_records :
                 LET rows == {r \in group_stats : gs_key(r) = gs_key(rec)}
                     last == last_baseline(gs_key(rec))
                 IN  /\ Cardinality(rows) = 1
                     /\ \A r \in rows : /\ r.mean_ppsq = last.mean_ppsq
                                        /\ r.std_ppsq = last.std_ppsq
                                        /\ r.count_listings = last.count_listings
        /\ \A p \in Slots :
              \A rec \in run[p].records :
                 LET rows == VerdictsOf(rec.listing_id)
                     w == last_verdict_writer(rec.listing_id)
                     last == CHOOSE x \in run[w].records : x.listing_id = rec.listing_id
                 IN  /\ Cardinality(rows) = 1
                     /\ \A r \in rows : /\ r.analyzed_at = run[w].wrote_at
                                        /\ r.price_per_sqft = last.price_per_sqft
                                        /\ r.is_anomaly = last.is_anomaly
                                        /\ r.anomaly_type = last.anomaly_type
                                        /\ r.mean_ppsq = last.mean_ppsq
                                        /\ r.std_ppsq = last.std_ppsq

-----------------------------------------------------------------------------
(* The baseline of every run *)

as_of(p) == IF run[p].kind = "stat" THEN run[p].stat_date ELSE run[p].run_date

(* C21: after an analysis run, statistical or ML, over a non-empty          *)
(* population has finished, the baseline table holds a row for each         *)
(* (zip_code, property_type) segment of that population for the run's as-of *)
(* date.                                                                    *)
C21_BaselineEveryRun ==
    \A p \in Slots :
        (/\ pc[p] = "done" /\ run[p].outcome = "returned"
         /\ run[p].records # {} /\ run[p].read_at = fed)
        => \A rec \in run[p].records :
              \E r \in group_stats :
                  /\ r.zip_code = run[p].zip
                  /\ r.property_type = listings[rec.listing_id].property_type
                  /\ r.stat_date = as_of(p)

-----------------------------------------------------------------------------
(* The lookback window of the statistical baseline *)

(* C22: a listing whose observation timestamp is older than the statistics  *)
(* lookback window contributes to no segment's mean, standard deviation or  *)
(* count in analyze.py's analyze_and_store: while the listings are as the   *)
(* run read them, every row of its frame is a listing of the window, and    *)
(* every baseline count is the number of the segment's listings in it.      *)
C22_StatLookback ==
    \A p \in Slots :
        (run[p].kind = "stat" /\ run[p].read_at = fed) =>
            LET recent == stat_load_recent_listings(run[p].zip, run[p].stat_date)
            IN  /\ \A r \in run[p].df : r.listing_id \in recent
                /\ \A rec \in run[p].gs_records :
                      rec.count_listings =
                         CopiesOf({i \in recent : /\ Positive(listings[i].sq_ft)
                                                  /\ listings[i].property_type =
                                                         rec.property_type})

-----------------------------------------------------------------------------
(* Full overwrite of a verdict *)

(* The run in slot p is a statistical run that has returned *)
stat_done(p) == pc[p] = "done" /\ run[p].kind = "stat" /\ run[p].outcome = "returned"

(* C23: a verdict upsert for an existing listing identifier overwrites all  *)
(* derived fields, in both storage dialects: the row a statistical run has  *)
(* written carries no predicted price, deviation percentage or quality      *)
(* marker, whatever an earlier ML run had stored for the listing.           *)
C23_FullOverwrite ==
    \A p \in Slots :
        stat_done(p) =>
            \A rec \in run[p].records :
                \A v \in VerdictsOf(rec.listing_id) :
                    v.analyzed_at = run[p].wrote_at =>
                        /\ IsNull(v.predicted_price)
                        /\ IsNull(v.deviation_percentage)
                        /\ v.dq_status = NULLTEXT

-----------------------------------------------------------------------------
(* Zero predictions *)

(* C24: a prediction is never negative, it is the model's prediction or 0   *)
(* when that is below 0; when the predicted price is exactly 0 the          *)
(* deviation is 0, not null, and the listing is classified normal whatever  *)
(* its actual price.                                                        *)
C24_ZeroPrediction ==
    probe.kind = "score_out" =>
        /\ ~RLess(probe.predicted_price, RZero)
        /\ RLess(probe.raw, RZero) => probe.predicted_price = RZero
        /\ ~RLess(probe.raw, RZero) => probe.predicted_price = probe.raw
        /\ probe.predicted_price = RZero =>
              /\ probe.deviation_percentage = RZero
              /\ probe.is_anomaly = FALSE
              /\ probe.anomaly_type = NULLTEXT

(* A negative prediction was clamped and the listing scored *)
C24_Witness ==
    /\ probe.kind = "score_out"
    /\ RLess(probe.raw, RZero)
    /\ probe.predicted_price = RZero
    /\ probe.deviation_percentage = RZero

(* The model predicted exactly 0 for a listing priced 250000 *)
C24_WitnessZero ==
    /\ probe.kind = "score_out"
    /\ probe.raw = RZero /\ probe.actual = R(250000)
    /\ probe.is_anomaly = FALSE

-----------------------------------------------------------------------------
(* A store that cannot be reached *)

nothing_ran ==
    /\ DOMAIN listings = {} /\ group_stats = {} /\ listing_analysis = {}
    /\ runs = 0 /\ \A p \in Slots : pc[p] = "idle"

(* C25 as stated: when the configured store is not reachable the failure is *)
(* fatal at run start: no listing is read, no baseline or verdict row is    *)
(* written to any store, and no run executes against another store.         *)
C25_FatalAsStated ==
    database_url = "unreachable" => nothing_ran

(* C25: when the configured store is not reachable, or its URL holds        *)
(* placeholders, the engine is created on the local SQLite file and the     *)
(* crawl and the runs work on that store in the SQLite dialect; only a      *)
(* missing DATABASE_URL is fatal at start, and then nothing is read or      *)
(* written.                                                                 *)
C25_FallbackStore ==
    /\ database_url \in {"unreachable", "placeholder"} => dialect = "sqlite"
    /\ database_url = "missing" => dialect = "none" /\ nothing_ran
    /\ database_url \in {"postgresql", "sqlite"} => dialect = database_url

(* With an unreachable store configured, a run has returned and its verdicts *)
(* are stored                                                               *)
C25_Witness ==
    /\ database_url = "unreachable"
    /\ listing_analysis # {}
    /\ \E p \in Slots : pc[p] = "done" /\ run[p].outcome = "returned"
                          /\ run[p].records # {}

-----------------------------------------------------------------------------
(* The ingestion pipeline *)

(* The items process_item has been handed *)
processed == {k \in 1..fed : Feeds[feed][k].via = "crawl"}

dq_tag(item) ==
    IF check_data_quality(item).passed THEN "PASS" ELSE check_data_quality(item).reason

(* C26: the ingestion pipeline stores every item it processes exactly once  *)
(* and tags it: after n items success_count + dq_fail_count = n and n       *)
(* upserts were issued, and the row of an item, until a later observation   *)
(* of its identifier, is the cleaned item with quality status 'PASS' when   *)
(* area >= 500, price is present and non-zero and the address is non-empty, *)
(* and with the failure reason otherwise.                                   *)
C26_StoredOnceAndTagged ==
    /\ pipeline.success_count + pipeline.dq_fail_count = Cardinality(processed)
    /\ pipeline.upserts = Cardinality(processed)
    /\ \A k \in processed :
          LET item == Feeds[feed][k]
          IN  (\A j \in (k + 1)..fed : Feeds[feed][j].listing_id # item.listing_id)
              => /\ item.listing_id \in DOMAIN listings
                 /\ listings[item.listing_id] = tagged(item, dq_tag(item))

(* C27: in one scheduled execution the analysis starts only after the scrape *)
(* has finished successfully and the reports only after the analysis has     *)
(* returned its summary; a failed scrape leaves the analysis and the reports *)
(* out of that execution, a failed analysis leaves the reports out.          *)
C27_StepOrder ==
    /\ runs \in {exec.runs0, exec.runs0 + 1}
    /\ (runs # exec.runs0 \/ exec.step \in {"analysis", "report"} \/ exec.analysis # "none")
          => exec.scrape = "ok"
    /\ pc[1] \notin {"idle", "done", "error"}
          => exec.step = "analysis" /\ exec.analysis = "none"
    /\ (exec.step = "report" \/ exec.report # "none")
          => /\ exec.kind = "daily_ml"
             /\ exec.analysis = "returned"
             /\ pc[1] = "done" /\ run[1].kind = "ml" /\ run[1].zip = exec.zip
             /\ run[1].report # NoReport
    /\ exec.scrape = "failed"
          => runs = exec.runs0 /\ exec.analysis = "none" /\ exec.report = "none"
    /\ exec.analysis = "failed" => exec.report = "none" /\ exec.step = "ended"

(* an execution that scraped, scored listings and generated its reports *)
C27_Witness ==
    /\ exec.kind = "daily_ml" /\ exec.step = "ended"
    /\ exec.scrape = "ok" /\ exec.analysis = "returned" /\ exec.report = "generated"
    /\ run[1].records # {}

(* an execution whose analysis raised and that ended without a report *)
C27_WitnessFailed ==
    /\ exec.step = "ended" /\ exec.scrape = "ok"
    /\ exec.analysis = "failed" /\ exec.report = "none"
    /\ pc[1] = "error"

(* the summaries returned by ML analysis runs *)
ml_summaries ==
    {run[p].report : p \in {q \in Slots : /\ pc[q] = "done" /\ run[q].kind = "ml"
                                           /\ run[q].report # NoReport}}

(* C28: in every summary returned by the ML analysis the anomaly count is   *)
(* the under-priced count plus the over-priced count, and none of the three *)
(* exceeds total_new_listings.                                              *)
C28_SummaryCounts ==
    \A rep \in ml_summaries :
        /\ rep.ml_anomalies = rep.ml_opportunities + rep.ml_risks
        /\ rep.ml_anomalies <= rep.total_new_listings
        /\ rep.ml_opportunities <= rep.total_new_listings
        /\ rep.ml_risks <= rep.total_new_listings

(* a summary that counts both an under-priced and an over-priced listing *)
C28_Witness ==
    \E rep \in ml_summaries :
        /\ rep.model_trained
        /\ rep.ml_opportunities > 0 /\ rep.ml_risks > 0
        /\ rep.ml_anomalies <= rep.total_new_listings

(* C29: every stored verdict row has a consistent flag and category:        *)
(* is_anomaly is true exactly when the category is 'over-priced' or         *)
(* 'under-priced', and false exactly when the category is null.             *)
C29_FlagMatchesCategory ==
    \A v \in listing_analysis :
        /\ v.anomaly_type \in {"over-priced", "under-priced", NULLTEXT}
        /\ v.is_anomaly <=> v.anomaly_type \in {"over-priced", "under-priced"}
        /\ ~v.is_anomaly <=> v.anomaly_type = NULLTEXT

(* rows of each category stored together, with and without a prediction *)
C29_Witness ==
    /\ \E v \in listing_analysis : v.is_anomaly /\ v.anomaly_type = "over-priced"
    /\ \E v \in listing_analysis : v.is_anomaly /\ v.anomaly_type = "under-priced"
    /\ \E v \in listing_analysis : ~v.is_anomaly /\ v.anomaly_type = NULLTEXT
    /\ \E v \in listing_analysis : IsNull(v.predicted_price)
    /\ \E v \in listing_analysis : ~IsNull(v.predicted_price)

-----------------------------------------------------------------------------
(* Baseline and verdicts of one zip *)

(* Slot p holds the statistical run that began last; it has finished, it    *)
(* read the listings as they stand, and no run is under way                 *)
stat_settled(p) ==
    /\ \A q \in Slots : pc[q] \in {"idle", "done", "error"}
    /\ pc[p] \in {"done", "error"} /\ run[p].kind = "stat"
    /\ run[p].read_at = fed /\ run[p].stat_date = today
    /\ \A q \in Slots : run[q].kind # "none" => run[q].started <= run[p].started

(* the verdict rows of the zip's listings whose last writer was a statistical run *)
stat_verdicts(z) ==
    {v \in listing_analysis :
        /\ v.listing_id \in DOMAIN listings
        /\ listings[v.listing_id].zip_code = z
        /\ v.dq_status = NULLTEXT /\ IsNull(v.predicted_price)}

(* C30: once the statistical runs of a zip have finished, a run whose       *)
(* verdict batch failed after its baseline batch committed included, the    *)
(* mean and standard deviation in each listing's verdict row are those of a *)
(* stored baseline row of the listing's segment for the same as-of date.    *)
C30_BaselineMatchesVerdicts ==
    \A p \in Slots :
        stat_settled(p) =>
            \A v \in stat_verdicts(run[p].zip) :
                \E b \in group_stats :
                    /\ b.zip_code = run[p].zip
                    /\ b.property_type = listings[v.listing_id].property_type
                    /\ b.stat_date = run[p].stat_date
                    /\ b.mean_ppsq = v.mean_ppsq
                    /\ b.std_ppsq = v.std_ppsq

====
